---- MODULE Spec2Model ----
(***************************************************************************)
(* Check10: rules engine (move generation, promotion and sum-to-10         *)
(* combination captures, move simulation), Zobrist hashing, and the        *)
(* iterative-deepening alpha-beta search with a transposition table.       *)
(*                                                                         *)
(* Conventions of the model                                                *)
(*  - a board is board[r][c], r, c in 0..7, holding a piece record or Null *)
(*    (JavaScript null);                                                   *)
(*  - search values are kept in tenths (evaluateBoard's 0.5 and 0.1 become *)
(*    5 and 1, a point becomes 10), so that they stay integers;            *)
(*  - Infinity is the integer Inf, larger than any value a search reaches; *)
(*  - a Zobrist key is the set of the table entries XOR-ed into it, and    *)
(*    XOR is symmetric difference: two keys equal in the model are equal   *)
(*    for every table the process can draw.                                *)
(***************************************************************************)
EXTENDS Integers, Sequences, FiniteSets, TLC

VARIABLES
    board,        \* game.board of the game object the caller holds
    currentPlayer,\* game.currentPlayer
    whiteScore,   \* game.whiteScore
    blackScore,   \* game.blackScore
    pc,           \* position of the running operation
    call,         \* arguments of the last simulateFullMove call
    entry,        \* the caller's board as it was when the last call was made
    result,       \* what the last simulateFullMove call returned
    hash,         \* currentHash / nextHash: the incrementally updated key
    path,         \* the moves made from the root: their number, the pieces captured
    order,        \* the order in which the window's pieces were last enumerated
    transpositionTable,      \* the Map of server.js, key -> {value, depth, flag}
    depth,                   \* findBestMoveWithAlphaBeta: depth of the running iteration
    moveIndex,               \* position of the for-of loop in movesToSearch
    bestMoveSoFar,
    currentBestMoveForDepth,
    bestValueForDepth,
    returned,                \* what findBestMoveWithAlphaBeta returned
    history                  \* history variable: what the iterations computed

searchVars == <<transpositionTable, depth, moveIndex, bestMoveSoFar,
                currentBestMoveForDepth, bestValueForDepth, returned, history>>

vars == <<board, currentPlayer, whiteScore, blackScore, pc, call, entry, result,
          hash, path, order, transpositionTable, depth, moveIndex, bestMoveSoFar,
          currentBestMoveForDepth, bestValueForDepth, returned, history>>

----------------------------------------------------------------------------
(* Board model *)

BoardSize == 8
Rows == 0 .. (BoardSize - 1)
Cols == 0 .. (BoardSize - 1)
Squares == Rows \X Cols
Colors == {"white", "black"}

Null == [color |-> "none", number |-> 0, promoted |-> FALSE]
Piece(color, number, promoted) ==
    [color |-> color, number |-> number, promoted |-> promoted]

EmptyBoard == [r \in Rows |-> [c \in Cols |-> Null]]
\* the value null where a board is expected (tempBoard: null)
NullBoard == <<>>

Opponent(color) == IF color = "white" THEN "black" ELSE "white"

SquareIndex(r, c) == r * 8 + c

\* b[r]?.[c]: undefined (falsy, here Null) outside the board
Lookup(b, r, c) == IF r \in Rows /\ c \in Cols THEN b[r][c] ELSE Null

\* a set of squares as the list a row-major double loop visits them in
RECURSIVE RowMajor(_)
RowMajor(S) ==
    IF S = {} THEN <<>>
    ELSE LET first == CHOOSE s \in S :
                        \A t \in S : SquareIndex(s[1], s[2]) <= SquareIndex(t[1], t[2])
         IN <<first>> \o RowMajor(S \ {first})

RECURSIVE SumOver(_, _)
SumOver(S, f) ==
    IF S = {} THEN 0
    ELSE LET x == CHOOSE y \in S : TRUE IN f[x] + SumOver(S \ {x}, f)

SeqToSet(s) == {s[i] : i \in 1 .. Len(s)}

----------------------------------------------------------------------------
(* Move generator *)

\* mutant: every piece moves toward row 0
DirectionUp(color) == -1

\* const direction = piece.color === 'white' ? -1 : 1
Direction(color) == IF color = "white" THEN -1 ELSE 1

\* mutant: the move generator takes every in-bounds square for free
SquareIsFreeAlways(boardState, newRow, newCol) == TRUE

\* !boardState[newRow][newCol]
SquareIsFree(boardState, newRow, newCol) == boardState[newRow][newCol] = Null

\* getValidMovesOnBoard: forward, forward-left, forward-right, each if in
\* bounds and empty
getValidMovesOnBoard(row, col, boardState, pieceColor) ==
    LET newRow == row + Direction(pieceColor)
        try(newCol) == IF newCol >= 0 /\ newCol < 8 /\ SquareIsFree(boardState, newRow, newCol)
                         THEN <<[row |-> newRow, col |-> newCol]>> ELSE <<>>
    IN IF newRow >= 0 /\ newRow < 8
         THEN try(col) \o try(col - 1) \o try(col + 1)
         ELSE <<>>

\* a generator that steps sideways, staying on the row
getValidMovesSideways(b, row, col) ==
    LET try(newCol) == IF newCol >= 0 /\ newCol < 8 /\ SquareIsFree(b, row, newCol)
                         THEN <<[row |-> row, col |-> newCol]>> ELSE <<>>
    IN IF b[row][col] = Null THEN <<>> ELSE try(col - 1) \o try(col + 1)

\* getValidMoves: its own copy of the same steps on this.board, the color
\* taken from the piece; nothing for an empty square
getValidMoves(b, row, col) ==
    LET piece == b[row][col]
        newRow == row + Direction(piece.color)
        try(newCol) == IF newCol >= 0 /\ newCol < 8 /\ SquareIsFree(b, newRow, newCol)
                         THEN <<[row |-> newRow, col |-> newCol]>> ELSE <<>>
    IN IF piece = Null THEN <<>>
       ELSE IF newRow >= 0 /\ newRow < 8
         THEN try(col) \o try(col - 1) \o try(col + 1)
         ELSE <<>>

Move(fromRow, fromCol, toRow, toCol, piece) ==
    [fromRow |-> fromRow, fromCol |-> fromCol, toRow |-> toRow, toCol |-> toCol,
     piece |-> piece]

\* null where a move is expected
NullMove == Move(-1, -1, -1, -1, Null)

RECURSIVE MovesOfSquares(_, _)
MovesOfSquares(b, sqs) ==
    IF sqs = <<>> THEN <<>>
    ELSE LET r == Head(sqs)[1]
             c == Head(sqs)[2]
             vm == getValidMoves(b, r, c)
         IN [i \in 1 .. Len(vm) |-> Move(r, c, vm[i].row, vm[i].col, b[r][c])]
            \o MovesOfSquares(b, Tail(sqs))

getAllPossibleMovesForPlayer(b, playerColor) ==
    MovesOfSquares(b, RowMajor({s \in Squares : b[s[1]][s[2]] # Null
                                               /\ b[s[1]][s[2]].color = playerColor}))

\* mutant: a color has moves as soon as it has a piece
hasValidMovesAnyPiece(b, playerColor) == \E s \in Squares : b[s[1]][s[2]].color = playerColor

hasValidMoves(b, playerColor) ==
    \E s \in Squares : /\ b[s[1]][s[2]] # Null
                       /\ b[s[1]][s[2]].color = playerColor
                       /\ Len(getValidMoves(b, s[1], s[2])) > 0

----------------------------------------------------------------------------
(* Capture resolver *)

\* mutant: promoted pieces match too
MatchingPiecesAnyPiece(piece, boardState) ==
    RowMajor({s \in Squares :
                /\ boardState[s[1]][s[2]] # Null
                /\ boardState[s[1]][s[2]].color = Opponent(piece.color)
                /\ boardState[s[1]][s[2]].number = piece.number})

\* mutant: the points of a promotion are given without a capture
PromotionOutcomeUncaptured(piece, matchingPieces) == [points |-> IF Len(matchingPieces) = 0 THEN 0 ELSE piece.number, leadsToChoice |-> Len(matchingPieces) > 1, captures |-> <<>>]

\* processPromotion: the opposing, unpromoted pieces with the number of the
\* piece at (row, col), in row-major order; none, the only one, or the first
PromotionOutcome(piece, matchingPieces) ==
    IF Len(matchingPieces) = 0
      THEN [points |-> 0, leadsToChoice |-> FALSE, captures |-> <<>>]
    ELSE IF Len(matchingPieces) = 1
      THEN [points |-> piece.number, leadsToChoice |-> FALSE,
            captures |-> <<matchingPieces[1]>>]
    ELSE [points |-> piece.number, leadsToChoice |-> TRUE,
          captures |-> <<matchingPieces[1]>>]

MatchingPieces(piece, boardState) ==
    RowMajor({s \in Squares :
                /\ boardState[s[1]][s[2]] # Null
                /\ boardState[s[1]][s[2]].color = Opponent(piece.color)
                /\ boardState[s[1]][s[2]].number = piece.number
                /\ ~boardState[s[1]][s[2]].promoted})

processPromotion(row, col, boardState) ==
    PromotionOutcome(boardState[row][col], MatchingPieces(boardState[row][col], boardState))

Dirs8 == << <<-1, -1>>, <<-1, 0>>, <<-1, 1>>, <<0, -1>>, <<0, 1>>, <<1, -1>>,
            <<1, 0>>, <<1, 1>> >>

\* the breadth-first search of areConnectedOptimized: q the queue, vS the
\* visited squares, pS the squares of the candidate
RECURSIVE Bfs(_, _, _)
Bfs(pS, vS, q) ==
    IF q = <<>> THEN vS
    ELSE LET c == Head(q)
             found == SelectSeq([i \in 1 .. 8 |-> <<c[1] + Dirs8[i][1], c[2] + Dirs8[i][2]>>],
                                LAMBDA k : k \in pS /\ k \notin vS)
         IN Bfs(pS, vS \cup SeqToSet(found), Tail(q) \o found)

\* ps: a list of [row, col, piece]
areConnectedOptimized(ps) ==
    IF Len(ps) <= 1 THEN TRUE
    ELSE LET pS == {<<ps[i].row, ps[i].col>> : i \in 1 .. Len(ps)}
             start == <<ps[1].row, ps[1].col>>
         IN Cardinality(Bfs(pS, {start}, <<start>>)) = Len(ps)

Pow2(k) == 2 ^ k
\* 1 << n in 32-bit two's complement: the shift count is taken modulo 32
Shl1(n) == IF n % 32 = 31 THEN (-2147483647) - 1 ELSE Pow2(n % 32)
\* (m >> i) & 1, and m & (1 << i) # 0, for 0 <= m < 2^31: the shift count is
\* taken modulo 32, and bit 31 of such an m is 0
BitSet(m, i) == IF i % 32 = 31 THEN FALSE ELSE (m \div Pow2(i % 32)) % 2 = 1

\* the members of mask m, as positions 1..n of the list ps (bit i: ps[i+1])
MaskIndices(m, n) == {i \in 1 .. n : BitSet(m, i - 1)}

RECURSIVE IndexSeq(_, _, _)
\* the positions of idx in increasing order, from position i on
IndexSeq(idx, i, n) ==
    IF i > n THEN <<>>
    ELSE (IF i \in idx THEN <<i>> ELSE <<>>) \o IndexSeq(idx, i + 1, n)

\* the test of one mask in findValidCombinations
AcceptsMask(ps, m) ==
    LET n == Len(ps)
        idx == MaskIndices(m, n)
        cL == Cardinality(idx)
    IN /\ ~(cL > 8 \/ cL < 2)
       /\ SumOver(idx, [i \in idx |-> ps[i].piece.number]) = 10
       /\ \E i \in idx : ps[i].piece.color = "white"
       /\ \E i \in idx : ps[i].piece.color # "white"
       /\ LET is == IndexSeq(idx, 1, n)
          IN areConnectedOptimized([k \in 1 .. Len(is) |-> ps[is[k]]])

\* for (let m = 3; m < (1 << n); m++): the masks the loop runs through
Masks(n) == IF 3 < Shl1(n) THEN 3 .. (Shl1(n) - 1) ELSE {}

\* findValidCombinations: the accepted masks m = 3 .. (1 << n) - 1, each
\* combination as the set of the positions of ps it holds
findValidCombinations(ps) ==
    {MaskIndices(m, Len(ps)) : m \in {k \in Masks(Len(ps)) : AcceptsMask(ps, k)}}

\* a scan of the whole board instead of the window
NearbyPiecesOfBoard(checkRow, checkCol, boardState) ==
    LET sqs == RowMajor({s \in Squares : boardState[s[1]][s[2]] # Null})
    IN [i \in 1 .. Len(sqs) |->
          [row |-> sqs[i][1], col |-> sqs[i][2], piece |-> boardState[sqs[i][1]][sqs[i][2]]]]

\* the occupied squares of the radius-3 window, row-major, as [row, col, piece]
NearbyPieces(checkRow, checkCol, boardState) ==
    LET radius == 3
        lo(x) == IF x - radius > 0 THEN x - radius ELSE 0
        hi(x) == IF x + radius < 7 THEN x + radius ELSE 7
        sqs == RowMajor({s \in (lo(checkRow) .. hi(checkRow)) \X (lo(checkCol) .. hi(checkCol)) :
                           boardState[s[1]][s[2]] # Null})
    IN [i \in 1 .. Len(sqs) |->
          [row |-> sqs[i][1], col |-> sqs[i][2], piece |-> boardState[sqs[i][1]][sqs[i][2]]]]

\* checkCombinationsAroundPositionOnBoard: the combinations as sets of squares
CombinationsAmong(nearbyPieces) ==
    IF \/ ~\E i \in 1 .. Len(nearbyPieces) : nearbyPieces[i].piece.color = "white"
       \/ ~\E i \in 1 .. Len(nearbyPieces) : nearbyPieces[i].piece.color = "black"
      THEN {}
      ELSE {{<<nearbyPieces[i].row, nearbyPieces[i].col>> : i \in comb} :
               comb \in findValidCombinations(nearbyPieces)}

checkCombinationsAroundPositionOnBoard(checkRow, checkCol, boardState, scoringPlayerColor) ==
    CombinationsAmong(NearbyPieces(checkRow, checkCol, boardState))

----------------------------------------------------------------------------
(* Move simulator *)

\* Infinity
Inf == 1000000

\* The arrays a call works on: the caller's board ("source") and the board
\* the call allocates ("temp"). tempBoard is a reference (ref) to one of them;
\* element assignments go to the array the reference names.
Heap(sourceBoard) == [ref |-> "source", mem |-> [source |-> sourceBoard, temp |-> sourceBoard]]

\* mutant: the rows are shared with the caller's board (a shallow copy)
CopyBoardShallow(h) == [ref |-> "source", mem |-> h.mem]

\* sourceBoard.map(r => r.map(p => (p ? { ...p } : null))): a new array of new
\* rows of new piece objects
CopyBoard(h) == [ref |-> "temp", mem |-> [h.mem EXCEPT !.temp = h.mem.source]]

Temp(h) == h.mem[h.ref]

\* tempBoard[r][c] = v
Store(h, r, c, v) == [h EXCEPT !.mem[h.ref][r][c] = v]

\* tempBoard[r][c] = null for every square of S
ClearAll(h, S) ==
    [h EXCEPT !.mem[h.ref] =
        [r \in Rows |-> [c \in Cols |-> IF <<r, c>> \in S THEN Null ELSE h.mem[h.ref][r][c]]]]

NoPromotion == [points |-> 0, leadsToChoice |-> FALSE, captures |-> <<>>]

\* what a call leaves behind: its return value (tempBoard, aiScoreGain,
\* leadsToChoiceForThisPlayer), a TypeError instead of it (threw), the caller's
\* board after the call (source), and the call's locals
Outcome(threw, h, tempBoard, gain, choice, locals) ==
    [threw |-> threw, tempBoard |-> tempBoard, aiScoreGain |-> gain,
     leadsToChoiceForThisPlayer |-> choice, source |-> h.mem.source, locals |-> locals]

NoLocals == [isPromotion |-> FALSE, promotionResult |-> NoPromotion,
             afterMove |-> NullBoard, afterPromotion |-> NullBoard,
             combinations |-> {}, piecesToRemoveByCombination |-> {},
             combinationPoints |-> 0]

\* { tempBoard: null, aiScoreGain: -Infinity, leadsToChoiceForThisPlayer: false }
InvalidMove(h) == Outcome(FALSE, h, NullBoard, -Inf, FALSE, NoLocals)

\* mutant: the pieces of the mover in a combination are captured too
PiecesToRemoveAnyColor(tempBoard, combinations, forPlayerColor) ==
    {pos \in UNION combinations : tempBoard[pos[1]][pos[2]] # Null}

\* the squares the loop over the combinations adds to piecesToRemoveByCombination
\* (a Set of "row,col" keys: a square is added, and scored, once)
PiecesToRemove(tempBoard, combinations, forPlayerColor) ==
    {pos \in UNION combinations :
        /\ tempBoard[pos[1]][pos[2]] # Null
        /\ tempBoard[pos[1]][pos[2]].color # forPlayerColor}

\* mutant: a square is scored for every combination that holds it
IsNewKeyAlways(piecesToRemoveByCombination, pos) == TRUE

\* if (!piecesToRemoveByCombination.has(key)): the square is new to the set
IsNewKey(piecesToRemoveByCombination, pos) == pos \notin piecesToRemoveByCombination

\* the double loop over the combinations and their squares: todo holds the
\* <<combination, square>> pairs still to visit, acc the set and the score so far
RECURSIVE CaptureLoop(_, _, _, _)
CaptureLoop(tempBoard, todo, forPlayerColor, acc) ==
    IF todo = {} THEN acc
    ELSE LET pair == CHOOSE x \in todo : TRUE
             pos == pair[2]
             pieceInCombination == tempBoard[pos[1]][pos[2]]
             counts == /\ pos \in PiecesToRemove(tempBoard, {pair[1]}, forPlayerColor)
                       /\ IsNewKey(acc.keys, pos)
         IN CaptureLoop(tempBoard, todo \ {pair}, forPlayerColor,
                        IF counts
                          THEN [keys |-> acc.keys \cup {pos},
                                score |-> acc.score + pieceInCombination.number]
                          ELSE acc)

\* the end of the combination pass: the captured squares are emptied
CombinationResult(h, combinations, loop) ==
    [heap |-> IF combinations # {} THEN ClearAll(h, loop.keys) ELSE h,
     combinations |-> combinations,
     removed |-> loop.keys,
     points |-> loop.score]

CombinationCaptures(h, combinations, forPlayerColor) ==
    CombinationResult(h, combinations,
                      CaptureLoop(Temp(h),
                                  UNION {{<<comb, pos>> : pos \in comb} : comb \in combinations},
                                  forPlayerColor, [keys |-> {}, score |-> 0]))

\* the combination pass on the board of h, for the mover at (toRow, toCol)
CombinationPass(h, toRow, toCol, forPlayerColor) ==
    CombinationCaptures(h,
                        checkCombinationsAroundPositionOnBoard(toRow, toCol, Temp(h), forPlayerColor),
                        forPlayerColor)

\* mutant: the destination is never looked at
DestinationOccupiedUnchecked(tempBoard, toRow, toCol) == FALSE

\* if (tempBoard[toRow][toCol]): the destination is occupied
DestinationOccupied(tempBoard, toRow, toCol) == tempBoard[toRow][toCol] # Null

\* return { tempBoard, aiScoreGain: scoreGain, leadsToChoiceForThisPlayer }
\* h2: after the piece was moved, h4: after the promotion pass, cp: the
\* combination pass
ReturnOutcome(h2, h4, promotes, promotionResult, cp) ==
    Outcome(FALSE, cp.heap, Temp(cp.heap), promotionResult.points + cp.points,
            promotionResult.leadsToChoice,
            [isPromotion |-> promotes, promotionResult |-> promotionResult,
             afterMove |-> Temp(h2), afterPromotion |-> Temp(h4),
             combinations |-> cp.combinations,
             piecesToRemoveByCombination |-> cp.removed,
             combinationPoints |-> cp.points])

\* the captures of the promotion are applied, then the combination pass runs
ApplyPromotion(toRow, toCol, forPlayerColor, h2, h3, promotes, promotionResult) ==
    ReturnOutcome(h2, ClearAll(h3, SeqToSet(promotionResult.captures)), promotes, promotionResult,
                  CombinationPass(ClearAll(h3, SeqToSet(promotionResult.captures)),
                                  toRow, toCol, forPlayerColor))

\* the promotion pass; movedPiece.promoted = true writes the object that sits
\* on (toRow, toCol)
PromotionPass(toRow, toCol, forPlayerColor, h2, movedPiece, promotes) ==
    IF promotes
      THEN ApplyPromotion(toRow, toCol, forPlayerColor, h2,
                          Store(h2, toRow, toCol, [movedPiece EXCEPT !.promoted = TRUE]), TRUE,
                          processPromotion(toRow, toCol,
                              Temp(Store(h2, toRow, toCol, [movedPiece EXCEPT !.promoted = TRUE]))))
      ELSE ApplyPromotion(toRow, toCol, forPlayerColor, h2, h2, FALSE, NoPromotion)

\* mutant: every arrival on the promotion rank promotes
PromotesOnRank(movedPiece, toRow, originalPieceFromSource) == (movedPiece.color = "white" /\ toRow = 0) \/ (movedPiece.color = "black" /\ toRow = 7)

\* isPromotion && originalPieceFromSource && !originalPieceFromSource.promoted
Promotes(movedPiece, toRow, originalPieceFromSource) ==
    /\ \/ (movedPiece.color = "white" /\ toRow = 0)
       \/ (movedPiece.color = "black" /\ toRow = 7)
    /\ originalPieceFromSource # Null
    /\ ~originalPieceFromSource.promoted

\* h2: the piece has been written to its destination and its origin emptied
Relocated(fromRow, fromCol, toRow, toCol, forPlayerColor, h2, movedPiece) ==
    PromotionPass(toRow, toCol, forPlayerColor, h2, movedPiece,
                  Promotes(movedPiece, toRow, h2.mem.source[fromRow][fromCol]))

\* the checks of the origin and of the destination, then the move
CheckedMove(fromRow, fromCol, toRow, toCol, forPlayerColor, h0, pieceToMove) ==
    IF pieceToMove = Null \/ pieceToMove.color # forPlayerColor THEN InvalidMove(h0)
    \* tempBoard[toRow] is undefined: reading [toCol] of it is a TypeError
    ELSE IF toRow \notin Rows THEN Outcome(TRUE, h0, NullBoard, 0, FALSE, NoLocals)
    ELSE IF DestinationOccupied(Temp(h0), toRow, toCol) THEN InvalidMove(h0)
    ELSE Relocated(fromRow, fromCol, toRow, toCol, forPlayerColor,
                   Store(Store(h0, toRow, toCol, pieceToMove), fromRow, fromCol, Null),
                   pieceToMove)

\* h0: the heap after the copy of the board
SimulateOnCopy(fromRow, fromCol, toRow, toCol, forPlayerColor, h0) ==
    CheckedMove(fromRow, fromCol, toRow, toCol, forPlayerColor, h0,
                Lookup(Temp(h0), fromRow, fromCol))

simulateFullMove(fromRow, fromCol, toRow, toCol, forPlayerColor, sourceBoard) ==
    SimulateOnCopy(fromRow, fromCol, toRow, toCol, forPlayerColor, CopyBoard(Heap(sourceBoard)))

----------------------------------------------------------------------------
(* Zobrist hasher *)

\* ZOBRIST.table[pieceIndex][squareIndex] and ZOBRIST.blackToMove: the key
\* is named, not drawn; a hash is the set of the keys XOR-ed into it an odd
\* number of times
ZobristTable(pieceIndex, squareIndex) == <<pieceIndex, squareIndex>>
ZobristBlackToMove == <<16, 0>>

\* hash ^= key
Xor(h, key) == IF key \in h THEN h \ {key} ELSE h \cup {key}

getPieceIndex(piece) == (IF piece.color = "white" THEN 0 ELSE 8) + piece.number - 1

RECURSIVE XorSquares(_, _, _)
XorSquares(h, b, sqs) ==
    IF sqs = <<>> THEN h
    ELSE LET r == Head(sqs)[1]
             c == Head(sqs)[2]
         IN XorSquares(Xor(h, ZobristTable(getPieceIndex(b[r][c]), SquareIndex(r, c))),
                       b, Tail(sqs))

calculateZobristKey(b, player) ==
    LET h == XorSquares({}, b, RowMajor({s \in Squares : b[s[1]][s[2]] # Null}))
    IN IF player = "black" THEN Xor(h, ZobristBlackToMove) ELSE h

\* mutant: the side-to-move key is left out
NextHashSameSide(h, move) ==
    Xor(Xor(h, ZobristTable(getPieceIndex(move.piece), SquareIndex(move.fromRow, move.fromCol))),
        ZobristTable(getPieceIndex(move.piece), SquareIndex(move.toRow, move.toCol)))

\* nextHash: the piece XOR-ed out of its origin, into its destination, and
\* the side-to-move key XOR-ed
NextHash(h, move) ==
    Xor(Xor(Xor(h, ZobristTable(getPieceIndex(move.piece), SquareIndex(move.fromRow, move.fromCol))),
            ZobristTable(getPieceIndex(move.piece), SquareIndex(move.toRow, move.toCol))),
        ZobristBlackToMove)

----------------------------------------------------------------------------
(* Search engine *)

MAX_SEARCH_DEPTH == 15

Max(a, b) == IF a > b THEN a ELSE b
Min(a, b) == IF a < b THEN a ELSE b

\* what hydrateFromServerState sets on a game object; gameOver is false on
\* every object the search creates
Game(b, player, ws, bs) ==
    [board |-> b, currentPlayer |-> player, whiteScore |-> ws, blackScore |-> bs,
     afterChoice |-> FALSE]

\* the game object of the position at hand (the one the endpoint hydrates from
\* the request, or the game of a node)
RootGame == Game(board, currentPlayer, whiteScore, blackScore)

\* mutant: the gain of a move is added to both scores
ChildGameBothScores(game, sim) == Game(sim.tempBoard, Opponent(game.currentPlayer), game.whiteScore + sim.aiScoreGain, game.blackScore + sim.aiScoreGain)

\* the object hydrateFromServerState fills for the other side after a move
Hydrated(game, tempBoard, aiScoreGain) ==
    Game(tempBoard, Opponent(game.currentPlayer),
         game.whiteScore + (IF game.currentPlayer = "white" THEN aiScoreGain ELSE 0),
         game.blackScore + (IF game.currentPlayer = "black" THEN aiScoreGain ELSE 0))

\* the childGame hydrated after a simulated move. afterChoice is no field of
\* the code's object: it records that the simulation the child was made from
\* reported leadsToChoiceForThisPlayer, and nothing of the search reads it
ChildGame(game, sim) ==
    [Hydrated(game, sim.tempBoard, sim.aiScoreGain)
       EXCEPT !.afterChoice = sim.leadsToChoiceForThisPlayer]

\* pieceValue of evaluateBoard in tenths, with the sign it is added with
PieceValue(piece, r, aiRootColor) ==
    (IF piece.color = aiRootColor THEN 1 ELSE -1)
    * ((IF piece.promoted THEN piece.number * 5 ELSE 0)
       + (IF piece.color = "white" THEN 7 - r ELSE r))

\* evaluateBoard in tenths: score difference plus the piece values
evaluateBoard(game, aiRootColor) ==
    10 * (IF aiRootColor = "white" THEN game.whiteScore - game.blackScore
                                   ELSE game.blackScore - game.whiteScore)
    + SumOver({s \in Squares : game.board[s[1]][s[2]] # Null},
              [s \in Squares |-> PieceValue(game.board[s[1]][s[2]], s[1], aiRootColor)])

\* new Map(), transpositionTable.clear()
NoTable == <<>>

\* tableEntry && tableEntry.depth >= depth
TableHit(table, key, atDepth) == key \in DOMAIN table /\ table[key].depth >= atDepth

\* transpositionTable.set(key, tableEntry)
TableSet(table, key, tableEntry) == (key :> tableEntry) @@ table

\* the flag of the entry stored after the loop: beta is the variable as the
\* loop left it
Flag(bestValue, originalAlpha, beta) ==
    IF bestValue <= originalAlpha THEN "UPPERBOUND"
    ELSE IF bestValue >= beta THEN "LOWERBOUND"
    ELSE "EXACT"

\* the parts of an alphaBetaSearch call its move loop does not change
Node(game, atDepth, originalAlpha, originalBeta, isMaximizingPlayer, aiRootColor, currentHash) ==
    [game |-> game, depth |-> atDepth, originalAlpha |-> originalAlpha,
     originalBeta |-> originalBeta,
     isMaximizingPlayer |-> isMaximizingPlayer, aiRootColor |-> aiRootColor,
     currentHash |-> currentHash,
     possibleMoves |-> getAllPossibleMovesForPlayer(game.board, game.currentPlayer)]

\* the variables of the move loop
Loop(bestValue, alpha, beta, table) ==
    [bestValue |-> bestValue, alpha |-> alpha, beta |-> beta, table |-> table]

\* bestValue and alpha (maximizing) or beta (minimizing) after a child's eval
Updated(node, loop, eval, table) ==
    IF node.isMaximizingPlayer
      THEN Loop(Max(loop.bestValue, eval), Max(loop.alpha, eval), loop.beta, table)
      ELSE Loop(Min(loop.bestValue, eval), loop.alpha, Min(loop.beta, eval), table)

\* const eval = (+/-)aiScoreGain + alphaBetaSearch(childGame, ...)
ChildReturned(node, loop, aiScoreGain, child) ==
    Updated(node, loop,
            (IF node.isMaximizingPlayer THEN 10 * aiScoreGain ELSE -10 * aiScoreGain)
               + child.value,
            child.table)

\* transpositionTable.set(currentHash, {value, depth, flag}); return bestValue.
\* calledWith is no field of the code's entry: it records the window and the
\* role the storing call was made with, and nothing of the search reads it
StoreAndReturn(node, loop) ==
    [value |-> loop.bestValue,
     table |-> TableSet(loop.table, node.currentHash,
                        [value |-> loop.bestValue, depth |-> node.depth,
                         flag |-> Flag(loop.bestValue, node.originalAlpha, loop.beta),
                         calledWith |-> [alpha |-> node.originalAlpha,
                                         beta |-> node.originalBeta,
                                         isMaximizingPlayer |-> node.isMaximizingPlayer,
                                         afterChoice |-> node.game.afterChoice]])]

RECURSIVE alphaBetaSearch(_, _, _, _, _, _, _, _)
RECURSIVE SearchMoves(_, _, _)

\* the child of one move: key, simulation, hydration, recursive call
ChildSearched(node, move, loop, sim) ==
    ChildReturned(node, loop, sim.aiScoreGain,
                  alphaBetaSearch(ChildGame(node.game, sim), node.depth - 1,
                                  loop.alpha, loop.beta, ~node.isMaximizingPlayer,
                                  node.aiRootColor, NextHash(node.currentHash, move),
                                  loop.table))

SearchChild(node, move, loop) ==
    ChildSearched(node, move, loop,
                  simulateFullMove(move.fromRow, move.fromCol, move.toRow, move.toCol,
                                   node.game.currentPlayer, node.game.board))

\* if (beta <= alpha) break
NextMove(node, i, loop) ==
    IF loop.beta <= loop.alpha THEN loop ELSE SearchMoves(node, i + 1, loop)

\* for (const move of possibleMoves), from the i-th move on
SearchMoves(node, i, loop) ==
    IF i > Len(node.possibleMoves) THEN loop
    ELSE NextMove(node, i, SearchChild(node, node.possibleMoves[i], loop))

\* the loop from bestValue = -/+Infinity on, then the store and the return
Searched(node, alpha, beta, table) ==
    StoreAndReturn(node,
                   SearchMoves(node, 1,
                               Loop(IF node.isMaximizingPlayer THEN -Inf ELSE Inf,
                                    alpha, beta, table)))

\* the terminal test, then the loop, the store and the return
Expand(game, atDepth, originalAlpha, originalBeta, alpha, beta, isMaximizingPlayer, aiRootColor, currentHash, table) ==
    IF atDepth = 0 \/ ~hasValidMoves(game.board, game.currentPlayer)
      THEN [value |-> evaluateBoard(game, aiRootColor), table |-> table]
      ELSE Searched(Node(game, atDepth, originalAlpha, originalBeta, isMaximizingPlayer,
                         aiRootColor, currentHash),
                    alpha, beta, table)

\* a table entry deep enough: returned if EXACT, else the window is tightened
\* and the entry's value returned if the window closed
WithEntry(game, atDepth, alpha, beta, isMaximizingPlayer, aiRootColor, currentHash, table, tableEntry) ==
    IF tableEntry.flag = "EXACT" THEN [value |-> tableEntry.value, table |-> table]
    ELSE IF (IF tableEntry.flag = "LOWERBOUND" THEN Max(alpha, tableEntry.value) ELSE alpha)
            >= (IF tableEntry.flag = "UPPERBOUND" THEN Min(beta, tableEntry.value) ELSE beta)
      THEN [value |-> tableEntry.value, table |-> table]
    ELSE Expand(game, atDepth, alpha, beta,
                IF tableEntry.flag = "LOWERBOUND" THEN Max(alpha, tableEntry.value) ELSE alpha,
                IF tableEntry.flag = "UPPERBOUND" THEN Min(beta, tableEntry.value) ELSE beta,
                isMaximizingPlayer, aiRootColor, currentHash, table)

\* alphaBetaSearch; the table is threaded through the call: the result is the
\* value returned and the table as the call left it
alphaBetaSearch(game, atDepth, alpha, beta, isMaximizingPlayer, aiRootColor, currentHash, table) ==
    IF TableHit(table, currentHash, atDepth)
      THEN WithEntry(game, atDepth, alpha, beta, isMaximizingPlayer, aiRootColor,
                     currentHash, table, table[currentHash])
      ELSE Expand(game, atDepth, alpha, beta, alpha, beta, isMaximizingPlayer, aiRootColor,
                  currentHash, table)

\* m => m.fromRow === bestMoveSoFar.fromRow && ... (findIndex's test)
SameSquares(m, n) ==
    /\ m.fromRow = n.fromRow /\ m.fromCol = n.fromCol
    /\ m.toRow = n.toRow /\ m.toCol = n.toCol

\* movesToSearch.findIndex(...), 1-based; 0 for -1
FindIndex(moves, best) ==
    IF \E i \in 1 .. Len(moves) : SameSquares(moves[i], best)
      THEN CHOOSE i \in 1 .. Len(moves) :
             /\ SameSquares(moves[i], best)
             /\ \A j \in 1 .. (i - 1) : ~SameSquares(moves[j], best)
      ELSE 0

MoveToFront(moves, k) ==
    IF k > 0 THEN <<moves[k]>> \o SubSeq(moves, 1, k - 1) \o SubSeq(moves, k + 1, Len(moves))
    ELSE moves

\* movesToSearch: possibleMoves with the best move of the previous iteration first
MovesToSearch(possibleMoves, best) == MoveToFront(possibleMoves, FindIndex(possibleMoves, best))

\* moveValue of a root move that leads to no choice
RootChildValue(aiScoreGain, child) ==
    [value |-> 10 * aiScoreGain + child.value, table |-> child.table]

\* moveValue of a root move and the table after it
RootMoveSimulated(game, move, atDepth, rootHash, table, sim) ==
    IF sim.leadsToChoiceForThisPlayer
      THEN [value |-> 10 * sim.aiScoreGain, table |-> table]
      ELSE RootChildValue(sim.aiScoreGain,
                          alphaBetaSearch(ChildGame(game, sim), atDepth - 1, -Inf, Inf, FALSE,
                                          game.currentPlayer, NextHash(rootHash, move), table))

RootMoveValue(game, move, atDepth, table) ==
    RootMoveSimulated(game, move, atDepth,
                      calculateZobristKey(game.board, game.currentPlayer), table,
                      simulateFullMove(move.fromRow, move.fromCol, move.toRow, move.toCol,
                                       game.currentPlayer, game.board))

\* mutant: no candidate is recorded before the search begins
InitialCandidateNone(possibleMoves, k) == NullMove

\* possibleMoves[Math.floor(Math.random() * possibleMoves.length)]
InitialCandidate(possibleMoves, k) == possibleMoves[k]

\* mutant: on a time-out during a depth, the best move of the unfinished depth
\* is returned when there is one
MoveOnTimeLimitUnfinished(soFar, forDepth) == IF forDepth # NullMove THEN forDepth ELSE soFar

\* return bestMoveSoFar (time limit reached during a depth)
MoveOnTimeLimit(soFar, forDepth) == soFar

\* what is recorded of a search: the candidate of line 80, the best move of
\* each completed depth, the root values of the depth at hand, the check at
\* which the deadline passed, and whether the process held a table with
\* entries when the request arrived
NoHistory ==
    [candidate |-> NullMove, best |-> <<>>, values |-> <<>>, expiry |-> "none", earlier |-> FALSE]

\* the search engine at rest: the table as the process creates it
SearchIdle ==
    /\ transpositionTable = NoTable
    /\ depth = 0
    /\ moveIndex = 0
    /\ bestMoveSoFar = NullMove
    /\ currentBestMoveForDepth = NullMove
    /\ bestValueForDepth = -Inf
    /\ returned = NullMove
    /\ history = NoHistory

----------------------------------------------------------------------------
(* Positions the model starts from *)

\* a placement: a square and the piece on it
Place(r, c, color, number, promoted) == [row |-> r, col |-> c, piece |-> Piece(color, number, promoted)]

BoardOf(places) ==
    [r \in Rows |-> [c \in Cols |->
        IF \E p \in places : p.row = r /\ p.col = c
          THEN (CHOOSE p \in places : p.row = r /\ p.col = c).piece
          ELSE Null]]

\* at most this many pieces on a starting board of the simulator runs
MaxPieces == 4

\* placements around the top-left corner, where White promotes, and one
\* Black piece a step from its own promotion rank
SimPalette ==
    { Place(1, 1, "white", 5, FALSE),
      Place(0, 2, "black", 5, FALSE),
      Place(3, 4, "black", 5, FALSE),
      Place(1, 2, "black", 2, FALSE),
      Place(2, 3, "white", 3, FALSE),
      Place(0, 0, "black", 5, TRUE),
      Place(6, 3, "black", 3, FALSE),
      Place(1, 0, "white", 5, TRUE),
      Place(6, 5, "white", 3, FALSE) }

\* boards one White move away from a connected cluster of two White 3s and a
\* Black 4: a triangle, a row, and the triangle with a piece outside the window
ClusterBoards ==
    { BoardOf({Place(4, 3, "white", 3, FALSE), Place(3, 4, "white", 3, FALSE),
               Place(2, 4, "black", 4, FALSE)}),
      BoardOf({Place(4, 1, "white", 3, FALSE), Place(3, 2, "white", 3, FALSE),
               Place(3, 3, "black", 4, FALSE)}),
      BoardOf({Place(4, 3, "white", 3, FALSE), Place(3, 4, "white", 3, FALSE),
               Place(2, 4, "black", 4, FALSE), Place(7, 7, "black", 8, FALSE)}) }

SimBoards ==
    {BoardOf(S) : S \in {T \in SUBSET SimPalette : Cardinality(T) <= MaxPieces}}
    \cup ClusterBoards

NoPath == [ply |-> 0, captured |-> 0]
\* no window enumerated yet
NoOrder == <<>>
NoCall == [fromRow |-> -1, fromCol |-> -1, toRow |-> -1, toCol |-> -1, color |-> "none"]
NoResult == Outcome(FALSE, Heap(NullBoard), NullBoard, 0, FALSE, NoLocals)

\* origins tried on board b: every occupied square, an empty one, and
\* coordinates off the board
SimOrigins(b) ==
    {s \in Squares : b[s[1]][s[2]] # Null} \cup {<<2, 6>>, <<-1, 1>>, <<8, 3>>, <<1, -1>>, <<6, 8>>}

\* destinations tried from an origin: the squares around it and the origin
\* itself, rows off the board included
SimTargets(s) == {t \in ((s[1] - 1) .. (s[1] + 1)) \X ((s[2] - 1) .. (s[2] + 1)) : t[2] \in Cols}

InitSim ==
    /\ board \in SimBoards
    /\ currentPlayer = "white"
    /\ whiteScore = 0
    /\ blackScore = 0
    /\ pc = "idle"
    /\ call = NoCall
    /\ entry = board
    /\ result = NoResult
    /\ hash = {}
    /\ path = NoPath
    /\ order = NoOrder
    /\ SearchIdle

\* game.simulateFullMove(fromRow, fromCol, toRow, toCol, color) by a caller
\* holding game.board, with arbitrary arguments
SimulateCall ==
    /\ pc = "idle"
    /\ \E from \in SimOrigins(board), color \in Colors :
        \E to \in SimTargets(from) :
          LET res == simulateFullMove(from[1], from[2], to[1], to[2], color, board)
          IN /\ call' = [fromRow |-> from[1], fromCol |-> from[2], toRow |-> to[1],
                         toCol |-> to[2], color |-> color]
             /\ entry' = board
             /\ result' = res
             /\ board' = res.source
             /\ pc' = "returned"
             /\ UNCHANGED <<currentPlayer, whiteScore, blackScore, hash, path, order>>
             /\ UNCHANGED searchVars

\* the caller drops the result and goes on with its own board (the next
\* sibling is simulated from the same game object)
SimulateReturn ==
    /\ pc = "returned"
    /\ pc' = "idle"
    /\ call' = NoCall
    /\ entry' = board
    /\ result' = NoResult
    /\ UNCHANGED <<board, currentPlayer, whiteScore, blackScore, hash, path, order>>
    /\ UNCHANGED searchVars

NextSim == SimulateCall \/ SimulateReturn

SpecSim == InitSim /\ [][NextSim]_vars

----------------------------------------------------------------------------
(* Claims about the move simulator, under SpecSim *)

Returned == pc = "returned"
Succeeded == Returned /\ ~result.threw /\ result.tempBoard # NullBoard
IsSentinel(res) ==
    /\ ~res.threw
    /\ res.tempBoard = NullBoard
    /\ res.aiScoreGain = -Inf
    /\ res.leadsToChoiceForThisPlayer = FALSE

Occupied(b) == {s \in Squares : b[s[1]][s[2]] # Null}
\* the squares occupied on board a and empty on board b
Removed(a, b) == {s \in Occupied(a) : b[s[1]][s[2]] = Null}

\* C3: simulateFullMove never changes its input board: after any call,
\* successful or failing, every square of the caller's board holds the same
\* piece, with the same color, number and promoted flag, as before the call.
C3_SourceBoardUnchanged ==
    Returned =>
        \A s \in Squares :
            /\ board[s[1]][s[2]].color = entry[s[1]][s[2]].color
            /\ board[s[1]][s[2]].number = entry[s[1]][s[2]].number
            /\ board[s[1]][s[2]].promoted = entry[s[1]][s[2]].promoted

\* a successful call that moved a piece, promoted it and captured both by
\* promotion and by combination has returned
C3_Witness ==
    /\ Succeeded
    /\ result.locals.isPromotion
    /\ result.locals.promotionResult.captures # <<>>
    /\ result.locals.piecesToRemoveByCombination # {}

OriginEmpty == Lookup(entry, call.fromRow, call.fromCol) = Null
OriginWrongColor == ~OriginEmpty /\ Lookup(entry, call.fromRow, call.fromCol).color # call.color
DestinationTaken == Lookup(entry, call.toRow, call.toCol) # Null

\* C4: for arbitrary arguments, simulateFullMove returns the invalid-move
\* sentinel (tempBoard null, aiScoreGain -Infinity, leadsToChoiceForThisPlayer
\* false), as a value and not as an error, whenever the origin is empty, holds
\* a piece of another color than the mover's, or the destination is occupied.
C4_SentinelOnInvalidInput ==
    Returned /\ (OriginEmpty \/ OriginWrongColor \/ DestinationTaken) => IsSentinel(result)

\* the mover's own piece sent to an occupied square
C4_Witness ==
    /\ Returned
    /\ ~OriginEmpty /\ ~OriginWrongColor /\ DestinationTaken
    /\ <<call.fromRow, call.fromCol>> # <<call.toRow, call.toCol>>

PromotionRank(color) == IF color = "white" THEN 0 ELSE 7

\* an unpromoted piece has ended a successful move on its promotion rank
PromotingMove ==
    /\ Succeeded
    /\ ~entry[call.fromRow][call.fromCol].promoted
    /\ call.toRow = PromotionRank(call.color)

\* the opposing, unpromoted pieces with the mover's number
MatchSet ==
    {s \in Squares : /\ entry[s[1]][s[2]] # Null
                     /\ entry[s[1]][s[2]].color = Opponent(call.color)
                     /\ ~entry[s[1]][s[2]].promoted
                     /\ entry[s[1]][s[2]].number = entry[call.fromRow][call.fromCol].number}

RemovedByPromotion == Removed(result.locals.afterMove, result.locals.afterPromotion)

FirstRowMajor(S) == CHOOSE s \in S : \A t \in S : SquareIndex(s[1], s[2]) <= SquareIndex(t[1], t[2])

\* C8: when a not-yet-promoted piece ends a move on its promotion rank, with M
\* the opposing unpromoted pieces of its number: M empty gives 0 points, no
\* capture and no choice; one piece in M is removed for the piece's number of
\* points, without choice; two or more give the choice flag, the piece's number
\* of points, and the removal of exactly the first of M in row-major order.
C8_PromotionCapture ==
    PromotingMove =>
        LET number == entry[call.fromRow][call.fromCol].number
            pr == result.locals.promotionResult
        IN /\ Cardinality(MatchSet) = 0 =>
                /\ pr.points = 0
                /\ RemovedByPromotion = {}
                /\ ~result.leadsToChoiceForThisPlayer
           /\ Cardinality(MatchSet) = 1 =>
                /\ pr.points = number
                /\ RemovedByPromotion = MatchSet
                /\ ~result.leadsToChoiceForThisPlayer
           /\ Cardinality(MatchSet) >= 2 =>
                /\ pr.points = number
                /\ RemovedByPromotion = {FirstRowMajor(MatchSet)}
                /\ result.leadsToChoiceForThisPlayer

C8_Witness == PromotingMove /\ Cardinality(MatchSet) >= 2

RemovedByCombination == Removed(result.locals.afterPromotion, result.tempBoard)

\* C10: the combination pass removes exactly the pieces of the non-mover color
\* that belong to at least one accepted combination, removes no piece of the
\* mover's color, and adds the sum of the numbers of the removed pieces, each
\* square counted once.
C10_CombinationCaptures ==
    Succeeded =>
        LET before == result.locals.afterPromotion
            inSome == UNION result.locals.combinations
        IN /\ RemovedByCombination =
                {s \in inSome : before[s[1]][s[2]].color = Opponent(call.color)}
           /\ \A s \in RemovedByCombination : before[s[1]][s[2]].color # call.color
           /\ result.locals.combinationPoints =
                SumOver(RemovedByCombination,
                        [s \in RemovedByCombination |-> before[s[1]][s[2]].number])
           /\ result.aiScoreGain =
                result.locals.promotionResult.points + result.locals.combinationPoints

\* a removed square lies in two accepted combinations, one of which also holds a
\* piece of the mover's color other than the moved one
C10_Witness ==
    /\ Succeeded
    /\ \E s \in RemovedByCombination :
         Cardinality({comb \in result.locals.combinations : s \in comb}) >= 2
    /\ \E comb \in result.locals.combinations :
         \E s \in comb : s # <<call.toRow, call.toCol>>
                         /\ result.tempBoard[s[1]][s[2]].color = call.color

----------------------------------------------------------------------------
(* The combination pass as a function of a post-move board and a destination,
   under SpecCombo *)

\* a crowded post-move board: the 7x7 window of (3,3) holds 31 pieces, the
\* White 5 that has just arrived on (3,3) from (4,3) next to a Black 5 on
\* (2,3), every other piece an 8
DensePlaces ==
    {Place(3, 3, "white", 5, FALSE), Place(2, 3, "black", 5, FALSE)}
    \cup {Place(r, c, IF (r + c) % 2 = 0 THEN "black" ELSE "white", 8, FALSE) :
            r \in 0 .. 1, c \in 0 .. 6}
    \cup {Place(2, c, "black", 8, FALSE) : c \in {0, 1, 2, 4, 5, 6}}
    \cup {Place(3, c, "white", 8, FALSE) : c \in {0, 1, 2, 4, 5, 6}}
    \cup {Place(4, c, "white", 8, FALSE) : c \in {1, 2, 4}}

DenseBoard == BoardOf(DensePlaces)

\* a board whose rows 0 to 4 are full in columns 0 to 6: the window of (3,3)
\* holds 35 pieces, a Black 5 on (0,2) above a White 5 on (1,2), every other
\* piece an 8
CrowdedPlaces ==
    {Place(0, 2, "black", 5, FALSE), Place(1, 2, "white", 5, FALSE)}
    \cup {Place(s[1], s[2], IF (s[1] + s[2]) % 2 = 0 THEN "black" ELSE "white", 8, FALSE) :
            s \in ((0 .. 4) \X (0 .. 6)) \ {<<0, 2>>, <<1, 2>>}}

CrowdedBoard == BoardOf(CrowdedPlaces)

\* the <<post-move board, destination>> pairs the pass is applied to
ComboInputs ==
    {x \in SimBoards \X Squares : x[1][x[2][1]][x[2][2]] # Null}
    \cup {<<DenseBoard, <<3, 3>>>>, <<CrowdedBoard, <<3, 3>>>>}

InitCombo ==
    /\ \E x \in ComboInputs :
         /\ board = x[1]
         /\ call = [NoCall EXCEPT !.toRow = x[2][1], !.toCol = x[2][2],
                                  !.color = x[1][x[2][1]][x[2][2]].color]
    /\ currentPlayer = "white"
    /\ whiteScore = 0
    /\ blackScore = 0
    /\ pc = "idle"
    /\ entry = board
    /\ result = NoResult
    /\ hash = {}
    /\ path = NoPath
    /\ order = NoOrder
    /\ SearchIdle

\* this.checkCombinationsAroundPositionOnBoard(toRow, toCol, tempBoard, forPlayerColor)
CheckCombinations ==
    /\ pc = "idle"
    /\ pc' = "checked"
    /\ result' = [NoResult EXCEPT !.locals.combinations =
                    checkCombinationsAroundPositionOnBoard(call.toRow, call.toCol, board, call.color)]
    /\ UNCHANGED <<board, currentPlayer, whiteScore, blackScore, call, entry, hash, path, order>>
    /\ UNCHANGED searchVars

\* the positions 1..n in increasing order
Identity(n) == [k \in 1 .. n |-> k]

\* the orders tried for a list of n pieces: two positions exchanged (none, for
\* i = j), and the list reversed
Orders(n) ==
    {[Identity(n) EXCEPT ![i] = j, ![j] = i] : i \in 1 .. n, j \in 1 .. n}
    \cup {[k \in 1 .. n |-> n + 1 - k]}

\* the list ps in another order
Permuted(ps, o) == [k \in 1 .. Len(ps) |-> ps[o[k]]]

PermutedFound(o, combinations) ==
    /\ order' = o
    /\ result' = [NoResult EXCEPT !.locals.combinations = combinations]

\* the same pass with the pieces of the window enumerated in another order
\* before they are handed to findValidCombinations
CheckCombinationsPermuted ==
    /\ pc = "idle"
    /\ pc' = "permuted"
    /\ \E o \in Orders(Len(NearbyPieces(call.toRow, call.toCol, board))) :
         PermutedFound(o, CombinationsAmong(Permuted(NearbyPieces(call.toRow, call.toCol, board), o)))
    /\ UNCHANGED <<board, currentPlayer, whiteScore, blackScore, call, entry, hash, path>>
    /\ UNCHANGED searchVars

NextCombo == CheckCombinations \/ CheckCombinationsPermuted

SpecCombo == InitCombo /\ [][NextCombo]_vars

Abs(x) == IF x < 0 THEN -x ELSE x
Chebyshev(s, t) == IF Abs(s[1] - t[1]) > Abs(s[2] - t[2]) THEN Abs(s[1] - t[1]) ELSE Abs(s[2] - t[2])
Adjacent(s, t) == Chebyshev(s, t) = 1

\* the subsets of the squares of list sqs whose piece numbers on b sum to t
RECURSIVE SubsetsSummingTo(_, _, _)
SubsetsSummingTo(b, sqs, t) ==
    IF t = 0 THEN {{}}
    ELSE IF sqs = <<>> THEN {}
    ELSE LET x == Head(sqs)
             n == b[x[1]][x[2]].number
         IN SubsetsSummingTo(b, Tail(sqs), t) \cup
            (IF n <= t THEN {S \cup {x} : S \in SubsetsSummingTo(b, Tail(sqs), t - n)} ELSE {})

\* one connected component: no part of S is cut off from the rest of it
OneComponent(S) ==
    \A A \in SUBSET S : A = {} \/ A = S \/ \E s \in A, t \in S \ A : Adjacent(s, t)

\* the combinations the rule defines around destination d on board b
RuleCombinations(b, d) ==
    LET window == {s \in Occupied(b) : Chebyshev(s, d) <= 3}
    IN {S \in SubsetsSummingTo(b, RowMajor(window), 10) :
          /\ Cardinality(S) >= 2 /\ Cardinality(S) <= 8
          /\ \E s \in S : b[s[1]][s[2]].color = "white"
          /\ \E s \in S : b[s[1]][s[2]].color = "black"
          /\ OneComponent(S)}

\* C9: for any post-move board and destination, the combinations found are
\* exactly the subsets S of the occupied squares within Chebyshev distance 3 of
\* the destination with 2 <= |S| <= 8, numbers summing to 10, both colors
\* present, and S one connected component under 8-directional adjacency.
C9_CombinationsExact ==
    pc = "checked" =>
        result.locals.combinations = RuleCombinations(board, <<call.toRow, call.toCol>>)

----------------------------------------------------------------------------
(* Lines of play: the chain of child positions the search builds by
   simulating a generated move and hydrating the child game, under SpecPlay *)

\* at most this many moves are made from a starting position
MaxPlies == 3

PlayPalette ==
    { Place(2, 1, "white", 5, FALSE),
      Place(1, 2, "black", 5, FALSE),
      Place(5, 2, "black", 5, FALSE),
      Place(1, 0, "white", 3, FALSE),
      Place(6, 1, "black", 3, FALSE),
      Place(3, 7, "white", 2, FALSE) }

PlayBoards == {BoardOf(S) : S \in {T \in SUBSET PlayPalette : Cardinality(T) <= MaxPieces}}

InitPlay ==
    /\ board \in PlayBoards
    /\ currentPlayer \in Colors
    /\ whiteScore = 0
    /\ blackScore = 0
    /\ pc = "node"
    /\ call = NoCall
    /\ entry = board
    /\ result = NoResult
    /\ hash = calculateZobristKey(board, currentPlayer)
    /\ path = NoPath
    /\ order = NoOrder
    /\ SearchIdle

PieceCount(b) == Cardinality(Occupied(b))

\* the child of the node: its key, its board, its side to move and its scores
PlayChild(move, res) ==
    /\ call' = [fromRow |-> move.fromRow, fromCol |-> move.fromCol,
                toRow |-> move.toRow, toCol |-> move.toCol, color |-> currentPlayer]
    /\ entry' = board
    /\ result' = res
    /\ hash' = NextHash(hash, move)
    /\ board' = res.tempBoard
    /\ currentPlayer' = ChildGame(RootGame, res).currentPlayer
    /\ whiteScore' = ChildGame(RootGame, res).whiteScore
    /\ blackScore' = ChildGame(RootGame, res).blackScore
    \* a child without a board cannot be searched
    /\ pc' = IF res.tempBoard = NullBoard THEN "failed" ELSE "node"
    /\ path' = [ply |-> path.ply + 1,
                captured |-> path.captured +
                   (IF res.tempBoard = NullBoard THEN 0
                    ELSE PieceCount(board) - PieceCount(res.tempBoard))]
    /\ UNCHANGED order
    /\ UNCHANGED searchVars

PlayStep(move) ==
    PlayChild(move, simulateFullMove(move.fromRow, move.fromCol, move.toRow, move.toCol,
                                     currentPlayer, board))

\* one iteration of the move loop of alphaBetaSearch, followed into the child:
\* the key is updated, the move simulated, and the child game hydrated
PlayMove ==
    /\ pc = "node"
    /\ path.ply < MaxPlies
    /\ \E move \in SeqToSet(getAllPossibleMovesForPlayer(board, currentPlayer)) : PlayStep(move)

NextPlay == PlayMove

SpecPlay == InitPlay /\ [][NextPlay]_vars

AtNode == pc = "node"

SimulatesFine(res) ==
    /\ ~res.threw
    /\ res.tempBoard # NullBoard
    /\ res.aiScoreGain >= 0 /\ res.aiScoreGain < Inf

\* C2: on any board and for either color, every move the generator returns
\* simulates successfully on that board for that color: the board returned is
\* not null and the score gain is finite. Checked at the root and at every
\* position a line of play reaches.
C2_GeneratedMovesSimulate ==
    AtNode =>
        \A color \in Colors :
            \A move \in SeqToSet(getAllPossibleMovesForPlayer(board, color)) :
                SimulatesFine(simulateFullMove(move.fromRow, move.fromCol,
                                               move.toRow, move.toCol, color, board))

\* a position below the root where both colors have moves, one of them with a
\* neighbour square occupied
C2_Witness ==
    /\ AtNode /\ path.ply >= 1
    /\ \A color \in Colors : Len(getAllPossibleMovesForPlayer(board, color)) > 0
    /\ \E s \in Occupied(board) :
         Len(getValidMoves(board, s[1], s[2])) \in {1, 2}
         /\ s[2] \in 1 .. 6 /\ s[1] \in 1 .. 6

\* C7: after moves that capture nothing, the incrementally updated key equals
\* calculateZobristKey of the resulting board with the opponent to move; from
\* the root key computed from scratch this holds at every node reached through
\* capture-free moves only.
C7_IncrementalKey ==
    AtNode /\ path.captured = 0 => hash = calculateZobristKey(board, currentPlayer)

\* two capture-free moves deep, the second one a promotion, Black to move
C7_Witness ==
    /\ AtNode /\ path.ply >= 2 /\ path.captured = 0
    /\ result.locals.isPromotion
    /\ currentPlayer = "black"

----------------------------------------------------------------------------
(* findBestMoveWithAlphaBeta under a deadline that may pass at any check *)

Root(b, player, ws, bs) ==
    [board |-> b, currentPlayer |-> player, whiteScore |-> ws, blackScore |-> bs]

\* an endgame corner: three Black pieces around a White 5
CornerBoard ==
    BoardOf({Place(6, 3, "black", 5, FALSE), Place(6, 4, "black", 2, FALSE),
             Place(7, 4, "black", 5, TRUE), Place(7, 5, "white", 5, FALSE)})

\* a White 5 one step from promotion with two unpromoted Black 5s on the board
ChoiceBoard ==
    BoardOf({Place(1, 1, "white", 5, FALSE), Place(2, 5, "white", 3, FALSE),
             Place(6, 2, "black", 5, FALSE), Place(6, 6, "black", 5, FALSE)})

\* Black has no move left
StuckBoard ==
    BoardOf({Place(7, 4, "black", 5, TRUE), Place(7, 5, "white", 5, FALSE)})

\* two White pieces about to promote beside a Black 6 on its home rank
EdgeBoard ==
    BoardOf({Place(0, 0, "black", 6, FALSE), Place(1, 0, "white", 1, FALSE),
             Place(1, 1, "white", 6, FALSE)})

\* a White 5 one step from promotion, Black to move with two unpromoted 5s
\* that are three rows from their own promotion rank
InnerChoiceBoard ==
    BoardOf({Place(1, 1, "white", 5, FALSE), Place(4, 5, "black", 5, FALSE),
             Place(4, 7, "black", 5, FALSE)})

\* A position in which a cutoff below the root changes the value of a root move.
PruneBoard ==
    BoardOf({Place(2, 0, "white", 5, FALSE), Place(3, 3, "black", 5, FALSE),
             Place(4, 7, "black", 8, FALSE), Place(5, 7, "black", 2, FALSE)})

SearchRoots ==
    { Root(CornerBoard, "white", 0, 0),
      Root(PruneBoard, "white", 0, 0),
      Root(InnerChoiceBoard, "black", 0, 0),
      Root(EdgeBoard, "white", 0, 0),
      Root(ChoiceBoard, "white", 0, 0),
      Root(ChoiceBoard, "black", 3, 5),
      Root(StuckBoard, "black", 0, 0),
      Root(StuckBoard, "white", 0, 0) }

InitSearch ==
    /\ \E root \in SearchRoots :
         /\ board = root.board
         /\ currentPlayer = root.currentPlayer
         /\ whiteScore = root.whiteScore
         /\ blackScore = root.blackScore
    /\ pc = "idle"
    /\ call = NoCall
    /\ entry = board
    /\ result = NoResult
    /\ hash = calculateZobristKey(board, currentPlayer)
    /\ path = NoPath
    /\ order = NoOrder
    /\ SearchIdle

\* const possibleMoves = game.getAllPossibleMovesForPlayer(playerColor)
PossibleMoves == getAllPossibleMovesForPlayer(board, currentPlayer)

RECURSIVE PlainSearch(_, _, _, _, _, _)
RECURSIVE PlainMoves(_, _, _)

PlainChild(node, loop, sim) ==
    ChildReturned(node, loop, sim.aiScoreGain,
                  PlainSearch(ChildGame(node.game, sim), node.depth - 1, loop.alpha,
                              loop.beta, ~node.isMaximizingPlayer, node.aiRootColor))

PlainNext(node, i, loop) ==
    IF loop.beta <= loop.alpha THEN loop ELSE PlainMoves(node, i + 1, loop)

PlainMoves(node, i, loop) ==
    IF i > Len(node.possibleMoves) THEN loop
    ELSE PlainNext(node, i,
                   PlainChild(node, loop,
                              simulateFullMove(node.possibleMoves[i].fromRow,
                                               node.possibleMoves[i].fromCol,
                                               node.possibleMoves[i].toRow,
                                               node.possibleMoves[i].toCol,
                                               node.game.currentPlayer, node.game.board)))

\* the reference of C6: alphaBetaSearch with the table lookup and the store
\* taken out, same depth, same move order
PlainSearch(game, atDepth, alpha, beta, isMaximizingPlayer, aiRootColor) ==
    IF atDepth = 0 \/ ~hasValidMoves(game.board, game.currentPlayer)
      THEN [value |-> evaluateBoard(game, aiRootColor), table |-> NoTable]
      ELSE [value |-> PlainMoves(Node(game, atDepth, alpha, beta, isMaximizingPlayer, aiRootColor, {}),
                                 1,
                                 Loop(IF isMaximizingPlayer THEN -Inf ELSE Inf, alpha, beta,
                                      NoTable)).bestValue,
            table |-> NoTable]

PlainRootSimulated(game, atDepth, sim) ==
    IF sim.leadsToChoiceForThisPlayer THEN 10 * sim.aiScoreGain
    ELSE 10 * sim.aiScoreGain
         + PlainSearch(ChildGame(game, sim), atDepth - 1, -Inf, Inf, FALSE,
                       game.currentPlayer).value

\* moveValue of a root move in the search without the table
PlainRootValue(game, move, atDepth) ==
    PlainRootSimulated(game, atDepth,
                       simulateFullMove(move.fromRow, move.fromCol, move.toRow, move.toCol,
                                        game.currentPlayer, game.board))

\* the first of the moves with the highest value in a completed depth
FirstBest(values) ==
    values[CHOOSE i \in 1 .. Len(values) :
             /\ \A j \in 1 .. (i - 1) : values[j].value < values[i].value
             /\ \A j \in (i + 1) .. Len(values) : values[j].value <= values[i].value].move

\* the search begins: candidate recorded, depth 1 set up
SearchBegins(candidate) ==
    /\ bestMoveSoFar' = candidate
    /\ history' = [NoHistory EXCEPT !.candidate = candidate,
                                    !.earlier = transpositionTable # NoTable]
    /\ depth' = 1
    /\ moveIndex' = 1
    /\ currentBestMoveForDepth' = NullMove
    /\ bestValueForDepth' = -Inf
    /\ returned' = NullMove
    /\ pc' = "loop"

\* if (possibleMoves.length === 0) return null
NoMoveReturned ==
    /\ returned' = NullMove
    /\ pc' = "done"
    /\ history' = [NoHistory EXCEPT !.earlier = transpositionTable # NoTable]
    /\ depth' = 0
    /\ moveIndex' = 0
    /\ bestMoveSoFar' = NullMove
    /\ currentBestMoveForDepth' = NullMove
    /\ bestValueForDepth' = -Inf

\* game.hydrateFromServerState(gameState)
Hydrate(root) ==
    /\ board' = root.board
    /\ currentPlayer' = root.currentPlayer
    /\ whiteScore' = root.whiteScore
    /\ blackScore' = root.blackScore
    /\ entry' = root.board
    /\ hash' = calculateZobristKey(root.board, root.currentPlayer)

\* findBestMoveWithAlphaBeta(game) up to its first deadline check
FindBegins(possibleMoves) ==
    IF Len(possibleMoves) = 0 THEN NoMoveReturned
    ELSE \E k \in 1 .. Len(possibleMoves) : SearchBegins(InitialCandidate(possibleMoves, k))

\* mutant: the table of the process is left as the last request left it
TableOnRequestKept(table) == table

\* transpositionTable.clear()
TableOnRequest(table) == NoTable

\* POST /api/get-best-move, the first or after another one has been answered:
\* the table is cleared, the game hydrated from the request, and
\* findBestMoveWithAlphaBeta runs up to its first deadline check
Request ==
    /\ pc \in {"idle", "done"}
    /\ transpositionTable' = TableOnRequest(transpositionTable)
    /\ \E root \in SearchRoots :
         /\ Hydrate(root)
         /\ FindBegins(getAllPossibleMovesForPlayer(root.board, root.currentPlayer))
    /\ UNCHANGED <<call, result, path, order>>

\* mutant: the search of a root move is given up on the way: the table keeps
\* what was stored, no value is recorded, and the loop goes on
RootMoveSearchedCutShort(move, searched, plain) == transpositionTable' = searched.table /\ moveIndex' = moveIndex + 1 /\ UNCHANGED <<bestValueForDepth, currentBestMoveForDepth, history>>

\* the body of the loop over movesToSearch for one move
RootMoveSearched(move, searched, plain) ==
    /\ transpositionTable' = searched.table
    /\ IF searched.value > bestValueForDepth
         THEN /\ bestValueForDepth' = searched.value
              /\ currentBestMoveForDepth' = move
         ELSE UNCHANGED <<bestValueForDepth, currentBestMoveForDepth>>
    /\ moveIndex' = moveIndex + 1
    /\ history' = [history EXCEPT !.values =
                      Append(@, [move |-> move, value |-> searched.value, plain |-> plain])]

SearchRootMoveAt(move) ==
    RootMoveSearched(move, RootMoveValue(RootGame, move, depth, transpositionTable),
                     PlainRootValue(RootGame, move, depth))

\* the deadline has not passed at the check before a root move: the move is searched
SearchRootMove ==
    /\ pc = "loop"
    /\ moveIndex <= Len(PossibleMoves)
    /\ SearchRootMoveAt(MovesToSearch(PossibleMoves, bestMoveSoFar)[moveIndex])
    /\ UNCHANGED <<board, currentPlayer, whiteScore, blackScore, pc, call, entry, result,
                   hash, path, order, depth, bestMoveSoFar, returned>>

\* the deadline has passed at the check before a root move
TimeLimitDuringDepth ==
    /\ pc = "loop"
    /\ moveIndex <= Len(PossibleMoves)
    /\ returned' = MoveOnTimeLimit(bestMoveSoFar, currentBestMoveForDepth)
    /\ pc' = "done"
    /\ history' = [history EXCEPT !.expiry = "during"]
    /\ UNCHANGED <<board, currentPlayer, whiteScore, blackScore, call, entry, result,
                   hash, path, order, transpositionTable, depth, moveIndex, bestMoveSoFar,
                   currentBestMoveForDepth, bestValueForDepth>>

\* a depth is complete and the deadline has not passed: the next depth is set
\* up, or the loop ends at MAX_SEARCH_DEPTH
CompleteDepth ==
    /\ pc = "loop"
    /\ moveIndex > Len(PossibleMoves)
    /\ bestMoveSoFar' = currentBestMoveForDepth
    /\ IF depth < MAX_SEARCH_DEPTH
         THEN /\ depth' = depth + 1
              /\ moveIndex' = 1
              /\ currentBestMoveForDepth' = NullMove
              /\ bestValueForDepth' = -Inf
              /\ history' = [history EXCEPT !.best = Append(@, FirstBest(history.values)),
                                            !.values = <<>>]
              /\ UNCHANGED <<pc, returned>>
         ELSE /\ returned' = currentBestMoveForDepth
              /\ pc' = "done"
              /\ history' = [history EXCEPT !.best = Append(@, FirstBest(history.values)),
                                            !.expiry = "never"]
              /\ UNCHANGED <<depth, moveIndex, currentBestMoveForDepth, bestValueForDepth>>
    /\ UNCHANGED <<board, currentPlayer, whiteScore, blackScore, call, entry, result,
                   hash, path, order, transpositionTable>>

\* a depth is complete and the deadline has passed: its result is used
TimeLimitAfterDepth ==
    /\ pc = "loop"
    /\ moveIndex > Len(PossibleMoves)
    /\ bestMoveSoFar' = currentBestMoveForDepth
    /\ returned' = currentBestMoveForDepth
    /\ pc' = "done"
    /\ history' = [history EXCEPT !.best = Append(@, FirstBest(history.values)),
                                  !.expiry = "after"]
    /\ UNCHANGED <<board, currentPlayer, whiteScore, blackScore, call, entry, result,
                   hash, path, order, transpositionTable, depth, moveIndex,
                   currentBestMoveForDepth, bestValueForDepth>>

NextSearch ==
    \/ Request
    \/ SearchRootMove
    \/ TimeLimitDuringDepth
    \/ CompleteDepth
    \/ TimeLimitAfterDepth

SpecSearch == InitSearch /\ [][NextSearch]_vars

Done == pc = "done"

\* C1: whenever the side to move has a legal move, whatever the check at which
\* the deadline passes (before the first root move of depth 1, during a depth,
\* after a depth, never), the move returned is one of the moves the generator
\* returns on the root board: not null, and its simulation is not the sentinel.
C1_ReturnsLegalMove ==
    Done /\ Len(PossibleMoves) > 0 =>
        /\ returned # NullMove
        /\ returned \in SeqToSet(PossibleMoves)
        /\ simulateFullMove(returned.fromRow, returned.fromCol, returned.toRow,
                            returned.toCol, currentPlayer, board).tempBoard # NullBoard

\* the deadline passed before the first root move of depth 1 was searched
C1_Witness ==
    /\ Done /\ Len(PossibleMoves) > 1
    /\ history.expiry = "during" /\ depth = 1 /\ moveIndex = 1

\* C5: a deadline found passed during depth d returns the best move of depth
\* d-1 (the candidate recorded before the search for d = 1), whatever the
\* moves of depth d already searched were worth; a deadline found passed right
\* after depth d returns the best move of depth d.
C5_TimeLimitReturnsCompletedDepth ==
    /\ Done /\ history.expiry = "during" =>
         returned = (IF depth = 1 THEN history.candidate ELSE history.best[depth - 1])
    /\ Done /\ history.expiry = "after" => returned = history.best[depth]

\* the deadline passed during a depth d >= 2, after a root move of depth d that
\* is worth more than the best move of depth d-1 searched before it
C5_Witness ==
    /\ Done /\ history.expiry = "during" /\ depth >= 2 /\ moveIndex >= 2
    /\ currentBestMoveForDepth # NullMove
    /\ currentBestMoveForDepth # returned

\* C6: at every depth, every root move has the value the search without the
\* table gives it at that depth with the same move order.
C6_TableAgrees ==
    \A i \in 1 .. Len(history.values) : history.values[i].value = history.values[i].plain

----------------------------------------------------------------------------
(* The cluster of two White 3s and a Black 4, under SpecSim *)

\* the occupied squares of the 7x7 window of square d on board b
Window(b, d) == {s \in Occupied(b) : Chebyshev(s, d) <= 3}

SquaresOf(b, S, color, number) ==
    {s \in S : b[s[1]][s[2]].color = color /\ b[s[1]][s[2]].number = number}

\* a White move that promotes nothing has put a White 3 beside a White 3 and a
\* Black 4, connected, with nothing else in the window of the destination
ClusterFormed ==
    /\ Succeeded
    /\ call.color = "white"
    /\ ~result.locals.isPromotion
    /\ Cardinality(Window(result.locals.afterPromotion, <<call.toRow, call.toCol>>)) = 3
    /\ OneComponent(Window(result.locals.afterPromotion, <<call.toRow, call.toCol>>))
    /\ Cardinality(SquaresOf(result.locals.afterPromotion,
                             Window(result.locals.afterPromotion, <<call.toRow, call.toCol>>),
                             "white", 3)) = 2
    /\ Cardinality(SquaresOf(result.locals.afterPromotion,
                             Window(result.locals.afterPromotion, <<call.toRow, call.toCol>>),
                             "black", 4)) = 1

\* the combination is accepted and only the Black piece is captured
ClusterCaptured ==
    /\ result.locals.combinations =
         {Window(result.locals.afterPromotion, <<call.toRow, call.toCol>>)}
    /\ RemovedByCombination =
         SquaresOf(result.locals.afterPromotion,
                   Window(result.locals.afterPromotion, <<call.toRow, call.toCol>>),
                   "black", 4)
    /\ Removed(entry, result.tempBoard) = RemovedByCombination \cup {<<call.fromRow, call.fromCol>>}

-----------------------------------------------------------------------------
(* The movement rule, stated on its own: the in-bounds empty squares one row
   forward of a piece, straight or diagonal *)

ForwardRow(b, s) == IF b[s[1]][s[2]].color = "white" THEN s[1] - 1 ELSE s[1] + 1

Destinations(b, s) == {t \in Squares : /\ t[1] = ForwardRow(b, s)
                                        /\ t[2] \in {s[2] - 1, s[2], s[2] + 1}
                                        /\ b[t[1]][t[2]] = Null}

PiecesOf(b, color) == {s \in Occupied(b) : b[s[1]][s[2]].color = color}

StepsFrom(b, s) == {<<s[1], s[2], t[1], t[2]>> : t \in Destinations(b, s)}

TargetsOf(validMoves) == {<<validMoves[i].row, validMoves[i].col>> : i \in 1 .. Len(validMoves)}

StepsOf(moves) == {<<moves[i].fromRow, moves[i].fromCol, moves[i].toRow, moves[i].toCol>> : i \in 1 .. Len(moves)}

PieceMovesExact(b, s) ==
    /\ TargetsOf(getValidMoves(b, s[1], s[2])) = Destinations(b, s)
    /\ Len(getValidMoves(b, s[1], s[2])) = Cardinality(Destinations(b, s))
    /\ getValidMovesOnBoard(s[1], s[2], b, b[s[1]][s[2]].color) = getValidMoves(b, s[1], s[2])

PlayerMovesExact(b, color) ==
    /\ StepsOf(getAllPossibleMovesForPlayer(b, color)) = UNION {StepsFrom(b, s) : s \in PiecesOf(b, color)}
    /\ Len(getAllPossibleMovesForPlayer(b, color)) = Cardinality(StepsOf(getAllPossibleMovesForPlayer(b, color)))
    /\ hasValidMoves(b, color) = (Len(getAllPossibleMovesForPlayer(b, color)) > 0)

\* C12: at the root and at every position a line of play reaches, the moves
\* generated for a piece are exactly the in-bounds empty squares one row
\* forward of it (toward row 0 for White, toward row 7 for Black), straight or
\* diagonal, each once; the moves of a color are exactly the union of these
\* over its pieces; getValidMoves and getValidMovesOnBoard return the same list.
C12_MovesExact ==
    AtNode => /\ \A s \in Occupied(board) : PieceMovesExact(board, s)
              /\ \A color \in Colors : PlayerMovesExact(board, color)

\* a position below the root with a piece on the right edge and one on the
\* left edge that can move, a piece with a forward square taken, and a piece
\* on its last row
C12_Witness ==
    /\ AtNode /\ path.ply >= 1
    /\ \E s \in Occupied(board) : s[2] = 7 /\ Cardinality(Destinations(board, s)) = 2
    /\ \E s \in Occupied(board) : s[2] = 0 /\ Cardinality(Destinations(board, s)) \in {1, 2}
    /\ \E s \in Occupied(board) : s[2] \in 1 .. 6 /\ ForwardRow(board, s) \in Rows
                                  /\ Cardinality(Destinations(board, s)) < 3
    /\ \E s \in Occupied(board) : ForwardRow(board, s) \notin Rows
    /\ \A color \in Colors : PiecesOf(board, color) # {}


----------------------------------------------------------------------------
(* The no-move result *)

\* C13: the search returns null exactly when hasValidMoves is false for the
\* side to move on the root board; it has then run no depth, searched and
\* simulated no root move and stored nothing, and it has returned (no error).
C13_NullIffNoLegalMove ==
    Done => /\ (returned = NullMove) <=> ~hasValidMoves(board, currentPlayer)
            /\ returned = NullMove =>
                 /\ depth = 0 /\ moveIndex = 0
                 /\ history.values = <<>> /\ history.best = <<>>
                 /\ transpositionTable = NoTable
                 /\ result = NoResult

\* null has been returned to a side that still has a piece on the board
C13_Witness ==
    /\ Done /\ returned = NullMove
    /\ PiecesOf(board, currentPlayer) # {}
    /\ hasValidMoves(board, Opponent(currentPlayer))


----------------------------------------------------------------------------
(* Side to move and scores along a line of play, under SpecPlay *)

ScoreOf(color, ws, bs) == IF color = "white" THEN ws ELSE bs

\* C14: at each step of a line of play the side to move changes to the other
\* color, the mover's score grows by the gain of the move, which is not
\* negative, and the opponent's score stays as it was.
C14_AlternatesAndScoresGrow ==
    [][/\ currentPlayer' = Opponent(currentPlayer)
       /\ result'.aiScoreGain >= 0
       /\ ScoreOf(currentPlayer, whiteScore', blackScore')
            = ScoreOf(currentPlayer, whiteScore, blackScore) + result'.aiScoreGain
       /\ ScoreOf(Opponent(currentPlayer), whiteScore', blackScore')
            = ScoreOf(Opponent(currentPlayer), whiteScore, blackScore)
       /\ whiteScore' >= whiteScore /\ blackScore' >= blackScore]_vars

\* both colors have scored along a line, the last move without a gain
C14_Witness ==
    /\ AtNode /\ path.ply = 3
    /\ whiteScore > 0 /\ blackScore > 0
    /\ result.aiScoreGain = 0


----------------------------------------------------------------------------
(* The table across requests *)

\* a request has been taken up and none of its root moves searched yet
SearchJustBegun == pc = "loop" /\ depth = 1 /\ moveIndex = 1

\* C15: when the search of a request begins, the first request or a later
\* one, the table holds no entry: nothing stored while an earlier request was
\* served is there to be read.
C15_TableEmptyAtStart ==
    /\ SearchJustBegun => transpositionTable = NoTable
    /\ Done /\ returned = NullMove => transpositionTable = NoTable

\* the search of a request begins in a process whose table held entries of an
\* earlier request
C15_Witness == SearchJustBegun /\ history.earlier


----------------------------------------------------------------------------
(* The flag of a stored entry *)

\* the flag the final value has relative to a window
FlagInWindow(value, alpha, beta) ==
    IF value <= alpha THEN "UPPERBOUND"
    ELSE IF value >= beta THEN "LOWERBOUND"
    ELSE "EXACT"

\* C16: every entry of the table carries the flag its value has relative to
\* the window its node was called with: UPPERBOUND at or below the original
\* alpha, LOWERBOUND at or above the original beta, EXACT strictly between,
\* for maximizing and minimizing nodes alike.
C16_FlagOfOriginalWindow ==
    \A key \in DOMAIN transpositionTable :
        transpositionTable[key].flag =
            FlagInWindow(transpositionTable[key].value,
                         transpositionTable[key].calledWith.alpha,
                         transpositionTable[key].calledWith.beta)


----------------------------------------------------------------------------
(* Moves that lead to a choice *)

RootSimulation(move) ==
    simulateFullMove(move.fromRow, move.fromCol, move.toRow, move.toCol, currentPlayer, board)

\* a root move that leads to a choice is worth its immediate gain
RootChoiceNotSearched(searched) ==
    RootSimulation(searched.move).leadsToChoiceForThisPlayer
        => searched.value = 10 * RootSimulation(searched.move).aiScoreGain

\* C17: at the root and at every node of alphaBetaSearch, for either player,
\* no child node is searched for a move whose simulation reports
\* leadsToChoice: a root move of that kind is worth its immediate gain, and
\* no entry of the table was stored by a node reached through such a move.
C17_ChoiceNeverSearched ==
    /\ \A i \in 1 .. Len(history.values) : RootChoiceNotSearched(history.values[i])
    /\ \A key \in DOMAIN transpositionTable : ~transpositionTable[key].calledWith.afterChoice


----------------------------------------------------------------------------
(* Where a search can end *)

\* a step in which the search ends: nothing is searched in it, and it is taken
\* at the check before a root move or at the check after a depth
EndsAtCheckPoint ==
    /\ transpositionTable' = transpositionTable
    /\ history'.values = history.values
    /\ depth' = depth /\ moveIndex' = moveIndex
    /\ \/ moveIndex <= Len(PossibleMoves) /\ history'.expiry = "during"
       \/ moveIndex > Len(PossibleMoves) /\ history'.expiry \in {"after", "never"}

\* a step in which a root move is searched: its value is recorded whole and
\* the loop goes on to the next check
SearchesOneRootMove ==
    /\ pc' = "loop"
    /\ depth' = depth /\ moveIndex' = moveIndex + 1
    /\ Len(history'.values) = Len(history.values) + 1
    /\ history'.values[Len(history'.values)].move = MovesToSearch(PossibleMoves, bestMoveSoFar)[moveIndex]
    /\ history'.values[Len(history'.values)].value > -Inf
    /\ history'.values[Len(history'.values)].value < Inf

\* C18: a search in progress ends only at the check before a root move or at
\* the check after a depth, in a step that searches nothing; every root move
\* whose search has begun has its value when the next check is made: a step
\* that searches (the table or the recorded values change) completes exactly
\* one root move and leaves the search in progress.
C18_EndsOnlyAtCheckPoints ==
    /\ [](pc = "loop" => Len(history.values) = moveIndex - 1)
    /\ [][/\ pc = "loop" /\ pc' = "done" => EndsAtCheckPoint
          /\ pc = "loop" /\ pc' = "loop" /\ depth' = depth => SearchesOneRootMove
          /\ pc = "loop" /\ depth' # depth =>
               transpositionTable' = transpositionTable /\ moveIndex > Len(PossibleMoves)]_vars

\* the deadline was found passed at the check before a root move of depth 3 or
\* more, after a root move of that depth had been searched and had stored
\* entries
C18_Witness ==
    /\ Done /\ history.expiry = "during"
    /\ depth >= 3 /\ moveIndex >= 2
    /\ Len(history.values) = moveIndex - 1
    /\ Cardinality(DOMAIN transpositionTable) >= 3


----------------------------------------------------------------------------
(* The identity of the pieces through a move, under SpecSim *)

MovedFrom == <<call.fromRow, call.fromCol>>
MovedTo == <<call.toRow, call.toCol>>
PieceBefore == entry[call.fromRow][call.fromCol]
PieceAfter == result.tempBoard[call.toRow][call.toCol]

\* the moved piece keeps its color and number; it is promoted after the move
\* exactly if it was before or has ended on its promotion rank
MovedPieceKept ==
    /\ PieceAfter.color = PieceBefore.color
    /\ PieceAfter.number = PieceBefore.number
    /\ PieceAfter.promoted = (PieceBefore.promoted \/ call.toRow = PromotionRank(call.color))
    /\ result.tempBoard[call.fromRow][call.fromCol] = Null

\* every other piece is as it was, or captured
OtherPiecesKept ==
    \A s \in Occupied(entry) \ {MovedFrom} :
        \/ result.tempBoard[s[1]][s[2]] = Null
        \/ result.tempBoard[s[1]][s[2]] = entry[s[1]][s[2]]

\* no piece appears on a square that was empty, but the moved one
NoPieceAppears == Occupied(result.tempBoard) \subseteq (Occupied(entry) \ {MovedFrom}) \cup {MovedTo}

\* the promotion capture has not run
NoPromotionCapture ==
    /\ ~result.locals.isPromotion
    /\ result.locals.promotionResult = NoPromotion
    /\ RemovedByPromotion = {}
    /\ ~result.leadsToChoiceForThisPlayer

\* C19: in a successful simulated move no piece changes color or number; the
\* promoted flag of the moved piece goes from false to true exactly if the
\* piece ends on its promotion rank, and a flag that is true stays true; no
\* other piece's flag changes; a piece promoted before the move triggers no
\* promotion capture, and neither does a move that ends off the promotion rank.
C19_PieceIdentityKept ==
    Succeeded =>
        /\ MovedPieceKept
        /\ OtherPiecesKept
        /\ NoPieceAppears
        /\ PieceBefore.promoted \/ call.toRow # PromotionRank(call.color) => NoPromotionCapture
        /\ ~PieceBefore.promoted /\ call.toRow = PromotionRank(call.color) => result.locals.isPromotion

\* a piece promoted before the move has ended on its promotion rank while
\* unpromoted opposing pieces of its number stand on the board, next to one of
\* them
C19_Witness ==
    /\ Succeeded
    /\ PieceBefore.promoted
    /\ call.toRow = PromotionRank(call.color)
    /\ MatchSet # {}
    /\ Occupied(result.tempBoard) \ {MovedTo} # {}


----------------------------------------------------------------------------
(* The combination pass and the order of the window's pieces, under SpecCombo *)

Permuted20 == pc = "permuted"

\* the combinations of the pass as the code runs it, the window row-major
RowMajorCombinations == checkCombinationsAroundPositionOnBoard(call.toRow, call.toCol, board, call.color)

\* the points of a set of captured squares
PointsOf(removed) == SumOver(removed, [s \in removed |-> board[s[1]][s[2]].number])

\* C20: whatever the order in which the pieces of the window are handed to
\* findValidCombinations, the accepted combinations, as sets of squares, the
\* squares captured and the points gained are those of the row-major order.
C20_OrderIndependent ==
    Permuted20 =>
        /\ result.locals.combinations = RowMajorCombinations
        /\ PiecesToRemove(board, result.locals.combinations, call.color)
             = PiecesToRemove(board, RowMajorCombinations, call.color)
        /\ PointsOf(PiecesToRemove(board, result.locals.combinations, call.color))
             = PointsOf(PiecesToRemove(board, RowMajorCombinations, call.color))

\* the same for windows of at most 30 pieces
OrderIndependentBelow31 ==
    Len(NearbyPieces(call.toRow, call.toCol, board)) <= 30 => C20_OrderIndependent


----------------------------------------------------------------------------
(* The subsets the enumeration runs through, under SpecCombo *)

WindowSize == Len(NearbyPieces(call.toRow, call.toCol, board))

\* the loop reaches a mask that selects exactly positions i and j of the list
PairEnumerated(n, i, j) == \E m \in Masks(n) : MaskIndices(m, n) = {i, j}

\* C21: whatever the number k of pieces in the window, 31 or more included,
\* the loop of findValidCombinations reaches every subset of the list (checked
\* on the subsets of two pieces), and every connected subset of 2 to 8 pieces
\* of both colors that sums to 10 is among the combinations found.
C21_EverySubsetEnumerated ==
    pc = "checked" =>
        /\ \A i \in 1 .. WindowSize : \A j \in (i + 1) .. WindowSize :
              PairEnumerated(WindowSize, i, j)
        /\ RuleCombinations(board, <<call.toRow, call.toCol>>) \subseteq result.locals.combinations

\* the same for windows of at most 30 pieces
EverySubsetEnumeratedBelow31 == WindowSize <= 30 => C21_EverySubsetEnumerated


----------------------------------------------------------------------------
(* Material and scores along a line of play, under SpecPlay *)

\* initializeBoardData: Black on rows 0 and 1, White on rows 6 and 7, the
\* numbers 8 down to 1 on the outer rows and 1 up to 8 on the inner ones
InitialBoard ==
    [r \in Rows |-> [c \in Cols |->
        IF r = 0 THEN Piece("black", 8 - c, FALSE)
        ELSE IF r = 1 THEN Piece("black", c + 1, FALSE)
        ELSE IF r = 6 THEN Piece("white", 8 - c, FALSE)
        ELSE IF r = 7 THEN Piece("white", c + 1, FALSE)
        ELSE Null]]

\* the sum of the numbers of the pieces of a color on board b
Material(b, color) == SumOver(PiecesOf(b, color), [s \in Squares |-> b[s[1]][s[2]].number])

\* the sum of the numbers of the pieces on the squares S of board b
NumbersOn(b, S) == SumOver(S, [s \in Squares |-> b[s[1]][s[2]].number])

\* the squares the move of a step has captured: occupied before, empty after,
\* the origin of the move apart
CapturedInStep == Removed(board, board') \ {<<call'.fromRow, call'.fromCol>>}

\* C22: each color starts with 72 points of material on the initial layout;
\* at every step of a line of play the gain of the move is the sum of the
\* numbers of the pieces it removes, a piece removed by the promotion pass is
\* not removed or counted by the combination pass, and so a color's score plus
\* the opponent's material on the board stays what it was.
C22_MaterialConserved ==
    /\ [](Material(InitialBoard, "white") = 72 /\ Material(InitialBoard, "black") = 72)
    /\ [][/\ result'.aiScoreGain = NumbersOn(board, CapturedInStep)
          /\ SeqToSet(result'.locals.promotionResult.captures)
               \cap result'.locals.piecesToRemoveByCombination = {}
          /\ result'.aiScoreGain = result'.locals.promotionResult.points
                                     + result'.locals.combinationPoints
          /\ whiteScore' + Material(board', "black") = whiteScore + Material(board, "black")
          /\ blackScore' + Material(board', "white") = blackScore + Material(board, "white")]_vars

\* both colors have scored along a line and the last move has captured by
\* promotion
C22_Witness ==
    /\ AtNode /\ path.ply >= 2
    /\ whiteScore > 0 /\ blackScore > 0
    /\ result.locals.promotionResult.captures # <<>>


----------------------------------------------------------------------------
(* Exhaustive minimax over the value recursion of alphaBetaSearch *)

RECURSIVE Minimax(_, _, _, _)
RECURSIVE MinimaxMoves(_, _, _, _, _, _)

\* the eval of one move: the mover's gain, added at a maximizing node and
\* subtracted at a minimizing one, plus the value of the child
MinimaxEval(game, atDepth, isMaximizingPlayer, aiRootColor, sim) ==
    (IF isMaximizingPlayer THEN 10 * sim.aiScoreGain ELSE -10 * sim.aiScoreGain)
    + Minimax(ChildGame(game, sim), atDepth - 1, ~isMaximizingPlayer, aiRootColor)

MinimaxBest(isMaximizingPlayer, eval, rest) ==
    IF isMaximizingPlayer THEN Max(eval, rest) ELSE Min(eval, rest)

\* the best eval of the moves from the i-th on, none cut off
MinimaxMoves(game, atDepth, isMaximizingPlayer, aiRootColor, moves, i) ==
    IF i > Len(moves) THEN (IF isMaximizingPlayer THEN -Inf ELSE Inf)
    ELSE MinimaxBest(isMaximizingPlayer,
                     MinimaxEval(game, atDepth, isMaximizingPlayer, aiRootColor,
                                 simulateFullMove(moves[i].fromRow, moves[i].fromCol,
                                                  moves[i].toRow, moves[i].toCol,
                                                  game.currentPlayer, game.board)),
                     MinimaxMoves(game, atDepth, isMaximizingPlayer, aiRootColor, moves, i + 1))

Minimax(game, atDepth, isMaximizingPlayer, aiRootColor) ==
    IF atDepth = 0 \/ ~hasValidMoves(game.board, game.currentPlayer)
      THEN evaluateBoard(game, aiRootColor)
      ELSE MinimaxMoves(game, atDepth, isMaximizingPlayer, aiRootColor,
                        getAllPossibleMovesForPlayer(game.board, game.currentPlayer), 1)

MinimaxRootSimulated(game, atDepth, sim) ==
    IF sim.leadsToChoiceForThisPlayer THEN 10 * sim.aiScoreGain
    ELSE 10 * sim.aiScoreGain + Minimax(ChildGame(game, sim), atDepth - 1, FALSE, game.currentPlayer)

\* the value of a root move when the child is searched by exhaustive minimax
MinimaxRootValue(game, move, atDepth) ==
    MinimaxRootSimulated(game, atDepth,
                         simulateFullMove(move.fromRow, move.fromCol, move.toRow, move.toCol,
                                          game.currentPlayer, game.board))

\* C23: without the table, at every depth, the search of the child of a root
\* move with the window (-Infinity, +Infinity) returns the value of exhaustive
\* minimax over the same recursion: the cutoffs change no value returned to
\* the root.
C23_PruningSound ==
    \A i \in 1 .. Len(history.values) :
        history.values[i].plain = MinimaxRootValue(RootGame, history.values[i].move, depth)


----------------------------------------------------------------------------
(* Whole games: lines of play followed until the side to move has no legal
   move, under SpecGame *)

\* a move is made whenever the side to move has one
GameMove ==
    /\ pc = "node"
    /\ \E move \in SeqToSet(getAllPossibleMovesForPlayer(board, currentPlayer)) : PlayStep(move)

NextGame == GameMove

\* the pieces of the play palette that stand within three rows of their rank
GamePalette == PlayPalette \ {Place(1, 2, "black", 5, FALSE)}

GameBoards == {BoardOf(S) : S \in {T \in SUBSET GamePalette : Cardinality(T) <= MaxPieces}}

InitGame == InitPlay /\ board \in GameBoards

\* the line of play grows by one move, with some number of captures
LineGrows ==
    /\ pc = "node" /\ hasValidMoves(board, currentPlayer)
    /\ \E k \in 0 .. PieceCount(board) :
         path' = [ply |-> path.ply + 1, captured |-> path.captured + k]

\* play goes on as long as the side to move has a legal move: the loops that
\* make the moves run until hasValidMoves is false
SpecGame == InitGame /\ [][NextGame]_vars /\ WF_path(LineGrows)

\* rows between a piece and the rank on which its color promotes
RowsToGo(piece, row) == IF piece.color = "white" THEN row ELSE 7 - row

\* the rows all the pieces of a board have yet to go
Remaining(b) == SumOver(Occupied(b), [s \in Squares |-> RowsToGo(b[s[1]][s[2]], s[1])])

\* the side to move has no legal move
GameOver == pc = "node" /\ ~hasValidMoves(board, currentPlayer)

\* the step moves one piece of the side to move one row toward its rank
AdvancesOnePiece ==
    LET piece == board[call'.fromRow][call'.fromCol]
        moved == board'[call'.toRow][call'.toCol]
    IN /\ piece.color = currentPlayer
       /\ currentPlayer' # currentPlayer
       /\ RowsToGo(piece, call'.toRow) = RowsToGo(piece, call'.fromRow) - 1
       /\ RowsToGo(piece, call'.toRow) >= 0
       /\ moved.color = piece.color /\ moved.number = piece.number
       /\ board'[call'.fromRow][call'.fromCol] = Null

\* no other piece moves or comes back: a square other than the two of the
\* move keeps its piece or is emptied
NothingElseMoves ==
    \A s \in Squares \ {<<call'.fromRow, call'.fromCol>>, <<call'.toRow, call'.toCol>>} :
        board'[s[1]][s[2]] \in {board[s[1]][s[2]], Null}

\* C24: every game terminates. Each move advances exactly one piece of the
\* side to move by one row toward its promotion rank, the movers alternate,
\* no other piece moves or reappears, so the rows the pieces have yet to go
\* decrease with every move; the moves made never exceed 7 per piece of the
\* starting board, and play always reaches a state in which the side to move
\* has no legal move.
C24_EveryGameTerminates ==
    /\ [][/\ AdvancesOnePiece
          /\ NothingElseMoves
          /\ Remaining(board') < Remaining(board)
          /\ path'.ply + Remaining(board') <= path.ply + Remaining(board)]_vars
    /\ [](path.ply + Remaining(board) <= 7 * (PieceCount(board) + path.captured))
    /\ <>GameOver

\* a game that ended after more moves than a bounded line of play has, with a
\* capture on the way
C24_Witness == GameOver /\ path.ply > MaxPlies /\ path.captured > 0


----------------------------------------------------------------------------
(* The frame of a simulated move, under SpecSim *)

\* the squares whose piece the call has taken off the board
CapturedSquares == (Occupied(entry) \ {MovedFrom}) \ Occupied(result.tempBoard)

\* the captured squares outside the 7x7 window of the destination
FarCaptures == {s \in CapturedSquares : Chebyshev(s, MovedTo) > 3}

\* the piece on the destination is the piece of the origin, its promoted flag
\* as it was or set
MoverOnDestination ==
    \/ PieceAfter = PieceBefore
    \/ PieceAfter = [PieceBefore EXCEPT !.promoted = TRUE]

\* C25: on success the board returned differs from the board handed in only
\* at the origin (emptied), the destination (the mover's piece, promoted
\* possibly set) and the captured squares; every captured square held a piece
\* of the opposing color; at most one captured square lies farther than
\* Chebyshev distance 3 from the destination, and it is the promotion
\* capture; the number of pieces does not increase.
C25_FrameOfMove ==
    Succeeded =>
        /\ result.tempBoard[call.fromRow][call.fromCol] = Null
        /\ PieceBefore.color = call.color
        /\ MoverOnDestination
        /\ \A s \in Squares \ ({MovedFrom, MovedTo} \cup CapturedSquares) :
              result.tempBoard[s[1]][s[2]] = entry[s[1]][s[2]]
        /\ \A s \in CapturedSquares : entry[s[1]][s[2]].color = Opponent(call.color)
        /\ Cardinality(FarCaptures) <= 1
        /\ FarCaptures \subseteq RemovedByPromotion
        /\ PieceCount(result.tempBoard) <= PieceCount(entry)

\* a promotion with two pieces to choose from has captured one of them outside
\* the window of the destination, and three pieces are left on the board
C25_Witness ==
    /\ Succeeded
    /\ FarCaptures # {}
    /\ result.leadsToChoiceForThisPlayer
    /\ PieceCount(result.tempBoard) >= 3

====
